---- MODULE Spec2Model ----
(***************************************************************************)
(* quadratic-core/src/util.rs: column_name, column_from_name and           *)
(* join_with_conjunction.                                                  *)
(*                                                                         *)
(* The three functions are pure.  Each is an operator computed the way the *)
(* code computes it, and an action applies it to an input chosen in Init.  *)
(* A run is one of three scenarios (variable task):                        *)
(*   "encode": column_name(n), then column_from_name of the label;         *)
(*   "decode": column_from_name(s), then column_name of the index, if any; *)
(*   "join"  : join_with_conjunction(conjunction, items).                  *)
(*                                                                         *)
(* i64 is modelled as a two's-complement integer of Bits bits: TLC's own   *)
(* integers are 32 bits wide, so 64 cannot be used.  Every arithmetic step *)
(* of the code records its exact (unwrapped) result, so that an overflow   *)
(* is visible, and continues with the wrapped value.                       *)
(***************************************************************************)
EXTENDS Integers, Sequences, FiniteSets, TLC

\* Width of the modelled i64.
Bits == 11
\* Longest string of the exhaustive decoder inputs over SampleChars.
MaxLen == 3
\* Longest item list given to join_with_conjunction.
MaxItems == 4

RECURSIVE Pow(_, _)
Pow(b, k) == IF k = 0 THEN 1 ELSE b * Pow(b, k - 1)

I64Max == Pow(2, Bits - 1) - 1
I64Min == -Pow(2, Bits - 1)
I64 == I64Min..I64Max

\* The value a two's-complement register holds after computing x.
Wrap(x) == ((x - I64Min) % Pow(2, Bits)) + I64Min

\* Rust's `%` and `/` on i64 truncate toward zero (b > 0 here).
RemTrunc(a, b) == IF a >= 0 THEN a % b ELSE -((-a) % b)
DivTrunc(a, b) == IF a >= 0 THEN a \div b ELSE -((-a) \div b)

\* Option<i64>
None == [some |-> FALSE, val |-> 0]
Some(v) == [some |-> TRUE, val |-> v]

Reverse(q) == [i \in 1..Len(q) |-> q[Len(q) + 1 - i]]

(***************************************************************************)
(* Characters.  A string is a sequence of one-character strings; Ord is    *)
(* the code point of the characters the inputs are drawn from.             *)
(***************************************************************************)
ALPHABET ==
  << "A", "B", "C", "D", "E", "F", "G", "H", "I", "J", "K", "L", "M",
     "N", "O", "P", "Q", "R", "S", "T", "U", "V", "W", "X", "Y", "Z" >>

Letters == {ALPHABET[i] : i \in 1..Len(ALPHABET)}
Chars == Letters \cup {"n", "a", "z", "9", "3"}

Ord ==
  [c \in Chars |->
     IF c \in Letters
     THEN 64 + (CHOOSE i \in 1..Len(ALPHABET) : ALPHABET[i] = c)
     ELSE CASE c = "n" -> 110
            [] c = "a" -> 97
            [] c = "z" -> 122
            [] c = "9" -> 57
            [] c = "3" -> 51]

(***************************************************************************)
(* column_name (util.rs:5-27)                                              *)
(***************************************************************************)

\* line 6: let negative = n < 0;
IsNegative(n) == n < 0

\* Variant of Mirror: a plain sign flip, n = -n.
MirrorPlainNegation(n) == [val |-> Wrap(-n), raw |-> {-n}]

\* Variant of Mirror: n = -n - 1, negating before the subtraction.
MirrorNegateFirst(n) ==
  [val |-> Wrap(Wrap(-n) - 1), raw |-> {-n, Wrap(-n) - 1}]

\* line 8: n = -(n + 1);  raw holds the exact results of n + 1 and of the
\* negation.
Mirror(n) ==
  [val |-> Wrap(-Wrap(n + 1)), raw |-> {n + 1, -Wrap(n + 1)}]

\* Variant of Decrement: ordinary base 26, no decrement.
DecrementSkipped(q) == q

\* line 19: n -= 1;
Decrement(q) == q - 1

\* lines 12-20: the loop.  i is n % 26; an index outside 0..25 (`i as usize`
\* of a negative i is huge) panics in the alphabet lookup.
RECURSIVE EncodeLoop(_, _, _, _)
EncodeLoop(n, chars, raw, idx) ==
  LET i == RemTrunc(n, 26)
      q == DivTrunc(n, 26)
  IN  IF i \notin 0..(Len(ALPHABET) - 1)
      THEN [chars |-> chars, raw |-> raw \cup {i}, idx |-> idx \cup {i},
            panic |-> TRUE]
      ELSE IF q <= 0
      THEN [chars |-> Append(chars, ALPHABET[i + 1]),
            raw |-> raw \cup {i, q}, idx |-> idx \cup {i}, panic |-> FALSE]
      ELSE EncodeLoop(Wrap(Decrement(q)), Append(chars, ALPHABET[i + 1]),
                      raw \cup {i, q, Decrement(q)}, idx \cup {i})

\* Variant of Collect: the characters are not reversed.
CollectInOrder(chars) == chars

\* line 26: chars.into_iter().rev().map(|c| c as char).collect()
Collect(chars) == Reverse(chars)

\* The whole function.  label is the returned String; raw the exact value of
\* every intermediate integer; idx the alphabet indices used; panic whether
\* the lookup went out of bounds.
column_name(n) ==
  LET negative == IsNegative(n)
      m == IF negative THEN Mirror(n) ELSE [val |-> n, raw |-> {}]
      r == EncodeLoop(m.val, << >>, m.raw, {})
      chars == IF negative THEN Append(r.chars, "n") ELSE r.chars
  IN  [label |-> IF r.panic THEN << >> ELSE Collect(chars),
       raw |-> r.raw, idx |-> r.idx, panic |-> r.panic]

(***************************************************************************)
(* column_from_name (util.rs:29-53)                                        *)
(***************************************************************************)

\* line 30: s.starts_with('n')
StartsWithN(s) == Len(s) > 0 /\ s[1] = "n"

\* Variant of StripPrefix: every leading 'n' is stripped.
RECURSIVE StripAllPrefix(_)
StripAllPrefix(s) == IF StartsWithN(s) THEN StripAllPrefix(Tail(s)) ELSE s

\* lines 31-33: s.strip_prefix('n')
StripPrefix(s) == IF StartsWithN(s) THEN Tail(s) ELSE s

\* Variant of Digit: only the lower end of 'A'..='Z' is tested.
DigitNoUpperBound(c) ==
  IF Ord[c] >= Ord["A"] THEN Some(Ord[c] - Ord["A"]) ELSE None

\* lines 35-37: fn digit
Digit(c) ==
  IF Ord[c] >= Ord["A"] /\ Ord[c] <= Ord["Z"]
  THEN Some(Ord[c] - Ord["A"])
  ELSE None

\* Variant of CheckedAdd: i64::wrapping_add.
WrappingAdd(a, b) == Some(Wrap(a + b))

\* i64::checked_add
CheckedAdd(a, b) == IF a + b \in I64 THEN Some(a + b) ELSE None

\* i64::checked_mul
CheckedMul(a, b) == IF a * b \in I64 THEN Some(a * b) ELSE None

\* Variant of Accumulate: ordinary base 26, ret * 26 + digit.
AccumulatePlain(ret, c) ==
  LET m == CheckedMul(ret, 26)
      d == Digit(c)
  IN  IF ~m.some \/ ~d.some THEN None ELSE CheckedAdd(m.val, d.val)

\* lines 42-45: ret.checked_add(1)?.checked_mul(26)?.checked_add(digit(char)?)?
Accumulate(ret, c) ==
  LET a == CheckedAdd(ret, 1)
      m == IF a.some THEN CheckedMul(a.val, 26) ELSE None
      d == Digit(c)
  IN  IF ~a.some \/ ~m.some \/ ~d.some THEN None ELSE CheckedAdd(m.val, d.val)

\* lines 41-46: the loop over the remaining characters; accs is the
\* accumulator after the seed and after every completed iteration.
RECURSIVE DecodeLoop(_, _)
DecodeLoop(accs, rest) ==
  IF rest = << >>
  THEN [ok |-> TRUE, accs |-> accs]
  ELSE LET r == Accumulate(accs[Len(accs)], Head(rest))
       IN  IF ~r.some
           THEN [ok |-> FALSE, accs |-> accs]
           ELSE DecodeLoop(Append(accs, r.val), Tail(rest))

\* Variant of Finalise: ret = -(ret + 1), adding before the negation.
FinaliseNegateSum(ret) ==
  [val |-> Wrap(-Wrap(ret + 1)), raw |-> {ret + 1, -Wrap(ret + 1)}]

\* line 49: ret = -ret - 1;  raw holds the exact results of -ret and of the
\* subtraction.
Finalise(ret) ==
  [val |-> Wrap(Wrap(-ret) - 1), raw |-> {-ret, Wrap(-ret) - 1}]

\* The whole function.  ret is the returned Option<i64>; accs the accumulator
\* values; raw the exact intermediate values of line 49.
column_from_name(s) ==
  LET negative == StartsWithN(s)
      rest == StripPrefix(s)
      seed == IF rest = << >> THEN None ELSE Digit(Head(rest))
  IN  IF ~seed.some
      THEN [ret |-> None, accs |-> << >>, raw |-> {}]
      ELSE LET r == DecodeLoop(<< seed.val >>, Tail(rest))
               f == Finalise(r.accs[Len(r.accs)])
           IN  IF ~r.ok
               THEN [ret |-> None, accs |-> r.accs, raw |-> {}]
               ELSE IF negative
               THEN [ret |-> Some(f.val), accs |-> r.accs, raw |-> f.raw]
               ELSE [ret |-> Some(r.accs[Len(r.accs)]), accs |-> r.accs,
                     raw |-> {}]

(***************************************************************************)
(* join_with_conjunction (util.rs:57-69)                                   *)
(***************************************************************************)

\* Variant of CommaEach: ", " only between the items.
RECURSIVE CommaBetween(_)
CommaBetween(xs) ==
  IF xs = << >> THEN ""
  ELSE IF Len(xs) = 1 THEN Head(xs)
  ELSE (Head(xs) \o ", ") \o CommaBetween(Tail(xs))

\* line 63: all_but_last.iter().map(|x| format!("{}, ", x)).join("")
RECURSIVE CommaEach(_)
CommaEach(xs) ==
  IF xs = << >> THEN "" ELSE (Head(xs) \o ", ") \o CommaEach(Tail(xs))

\* The whole function; the items' Display text is the item itself.
join_with_conjunction(conjunction, items) ==
  CASE Len(items) = 0 -> "(none)"
    [] Len(items) = 1 -> items[1]
    [] Len(items) = 2 -> (((items[1] \o " ") \o conjunction) \o " ") \o items[2]
    [] OTHER ->
         (CommaEach(SubSeq(items, 1, Len(items) - 1)) \o conjunction)
           \o (" " \o items[Len(items)])

(***************************************************************************)
(* Inputs.                                                                 *)
(***************************************************************************)

\* Position of a letter string in the length-then-alphabetical order of the
\* non-empty letter strings (0-based): the number of shorter strings plus the
\* ordinary base-26 value of the string among those of its length.
LetterIndex(c) == (CHOOSE i \in 1..Len(ALPHABET) : ALPHABET[i] = c) - 1

RECURSIVE ShorterCount(_)
ShorterCount(len) ==
  IF len <= 1 THEN 0 ELSE Pow(26, len - 1) + ShorterCount(len - 1)

RECURSIVE Base26(_)
Base26(w) ==
  IF w = << >> THEN 0
  ELSE LetterIndex(w[1]) * Pow(26, Len(w) - 1) + Base26(Tail(w))

ShortlexRank(w) == ShorterCount(Len(w)) + Base26(w)

\* Every letter string whose rank is at most limit.
RECURSIVE LabelsUpTo(_)
LabelsUpTo(limit) ==
  IF limit < 0 THEN {}
  ELSE {<< c >> : c \in {l \in Letters : LetterIndex(l) <= limit}}
       \cup {w \in {Append(p, c) : p \in LabelsUpTo((limit \div 26) - 1),
                                   c \in Letters} : ShortlexRank(w) <= limit}

\* The largest rank of the letter strings given to the decoder: every string
\* up to the largest label followed by one more letter.
RankLimit == (I64Max + 1) * 26 + 25

LetterStrings == LabelsUpTo(RankLimit)

SampleChars == {"A", "B", "Z", "n", "a", "z", "9", "3"}

ShortStrings == UNION {[1..k -> SampleChars] : k \in 0..MaxLen}

DecodeInputs ==
  ShortStrings \cup LetterStrings \cup {<< "n" >> \o w : w \in LetterStrings}

Conjunctions == {"and", "or"}
Words == {"x", "y", "z"}
ItemLists == UNION {[1..k -> Words] : k \in 0..MaxItems}

(***************************************************************************)
(* State.                                                                  *)
(***************************************************************************)
VARIABLES
  pc,           \* "start", "named", "parsed", "done"
  task,         \* "encode", "decode", "join"
  n,            \* the i64 given to column_name        (task "encode")
  s,            \* the &str given to column_from_name  (task "decode")
  conjunction,  \* arguments of join_with_conjunction  (task "join")
  items,
  enc,          \* what column_name returned
  dec,          \* what column_from_name returned
  phrase        \* what join_with_conjunction returned

vars == << pc, task, n, s, conjunction, items, enc, dec, phrase >>

NoEnc == [label |-> << >>, raw |-> {}, idx |-> {}, panic |-> FALSE]
NoDec == [ret |-> None, accs |-> << >>, raw |-> {}]

Init ==
  /\ pc = "start"
  /\ enc = NoEnc
  /\ dec = NoDec
  /\ phrase = ""
  /\ \/ /\ task = "encode"
        /\ n \in I64
        /\ s = << >> /\ conjunction = "" /\ items = << >>
     \/ /\ task = "decode"
        /\ s \in DecodeInputs
        /\ n = 0 /\ conjunction = "" /\ items = << >>
     \/ /\ task = "join"
        /\ conjunction \in Conjunctions
        /\ items \in ItemLists
        /\ n = 0 /\ s = << >>

\* column_name on the input, or on the index the decoder returned.
ColumnName ==
  /\ \/ /\ pc = "start" /\ task = "encode"
        /\ enc' = column_name(n)
        /\ pc' = "named"
     \/ /\ pc = "parsed" /\ task = "decode" /\ dec.ret.some
        /\ enc' = column_name(dec.ret.val)
        /\ pc' = "done"
  /\ UNCHANGED << task, n, s, conjunction, items, dec, phrase >>

\* column_from_name on the input, or on the label the encoder returned.
ColumnFromName ==
  /\ \/ /\ pc = "start" /\ task = "decode"
        /\ dec' = column_from_name(s)
        /\ pc' = "parsed"
     \/ /\ pc = "named" /\ task = "encode" /\ ~enc.panic
        /\ dec' = column_from_name(enc.label)
        /\ pc' = "done"
  /\ UNCHANGED << task, n, s, conjunction, items, enc, phrase >>

JoinWithConjunction ==
  /\ pc = "start" /\ task = "join"
  /\ phrase' = join_with_conjunction(conjunction, items)
  /\ pc' = "done"
  /\ UNCHANGED << task, n, s, conjunction, items, enc, dec >>

Next == ColumnName \/ ColumnFromName \/ JoinWithConjunction

Spec == Init /\ [][Next]_vars

\* column_name has returned; EncArg is the integer it was given.
Encoded ==
  \/ task = "encode" /\ pc \in {"named", "done"}
  \/ task = "decode" /\ pc = "done"
EncArg == IF task = "encode" THEN n ELSE dec.ret.val

\* column_from_name has returned; DecArg is the string it was given.
Decoded ==
  \/ task = "decode" /\ pc \in {"parsed", "done"}
  \/ task = "encode" /\ pc = "done"
DecArg == IF task = "decode" THEN s ELSE enc.label

TypeOK ==
  /\ pc \in {"start", "named", "parsed", "done"}
  /\ task \in {"encode", "decode", "join"}
  /\ n \in I64
  /\ dec.ret.val \in I64

(***************************************************************************)
(* Vocabulary of the properties.                                           *)
(***************************************************************************)

\* w without its leading 'n', if it has one.
WithoutSign(w) == IF w # << >> /\ w[1] = "n" THEN SubSeq(w, 2, Len(w)) ELSE w

IsLetterString(w) == w # << >> /\ \A i \in 1..Len(w) : w[i] \in Letters

\* The letter string that follows w in length-then-alphabetical order.
RECURSIVE ShortlexSucc(_)
ShortlexSucc(w) ==
  IF w = << >> THEN << "A" >>
  ELSE LET front == SubSeq(w, 1, Len(w) - 1)
           last == w[Len(w)]
       IN  IF last # "Z"
           THEN Append(front, ALPHABET[LetterIndex(last) + 2])
           ELSE Append(ShortlexSucc(front), "A")

RECURSIVE Flatten(_)
Flatten(pieces) ==
  IF pieces = << >> THEN "" ELSE Head(pieces) \o Flatten(Tail(pieces))

\* The pieces of the phrase for k >= 3 items: the first k-1 items each
\* followed by ", ", the conjunction, a space, the last item.
ExpectedPieces(c, xs) ==
  LET k == Len(xs)
  IN  [i \in 1..(2 * k + 1) |->
         IF i = 2 * k + 1 THEN xs[k]
         ELSE IF i = 2 * k THEN " "
         ELSE IF i = 2 * k - 1 THEN c
         ELSE IF i % 2 = 1 THEN xs[(i + 1) \div 2]
         ELSE ", "]

(***************************************************************************)
(* Properties.                                                             *)
(***************************************************************************)

\* C1: round trip.  For every i64 n, column_name(n) returns and
\* column_from_name of the returned label is Some(n); the inputs include
\* i64::MIN and i64::MAX.
RoundTrip ==
  /\ (task = "encode" /\ pc = "named") => ~enc.panic
  /\ (task = "encode" /\ pc = "done") => dec.ret = Some(n)

RoundTripWitness ==
  /\ task = "encode" /\ pc = "done"
  /\ n = I64Min
  /\ dec.ret = Some(I64Min)

\* C2: converse round trip.  Whenever column_from_name(s) is Some(v),
\* column_name(v) is exactly s.
ConverseRoundTrip ==
  (task = "decode" /\ pc = "done") => (~enc.panic /\ enc.label = s)

ConverseRoundTripWitness ==
  /\ task = "decode" /\ pc = "done"
  /\ s = << "n", "Z", "Z" >>
  /\ dec.ret = Some(-702)
  /\ enc.label = s

\* C3: column_name never overflows.  For every input, i64::MIN included, the
\* exact value of every intermediate (n + 1, its negation, n % 26, n / 26,
\* n - 1) is an i64, every alphabet index is in 0..25, and the lookup does
\* not panic.
EncoderNoOverflow ==
  Encoded =>
    /\ ~enc.panic
    /\ enc.raw \subseteq I64
    /\ enc.idx # {}
    /\ enc.idx \subseteq 0..25

EncoderNoOverflowWitness ==
  /\ task = "encode" /\ pc = "named"
  /\ n = I64Min
  /\ {I64Min + 1, I64Max} \subseteq enc.raw
  /\ ~enc.panic

\* C4: overflow rejection.  A string of uppercase letters, with or without
\* one leading 'n', whose bijective base-26 value exceeds i64::MAX decodes to
\* None; the string whose value is exactly i64::MAX decodes to Some(i64::MAX),
\* and with a leading 'n' to Some(i64::MIN).
OverflowRejected ==
  (task = "decode" /\ pc # "start" /\ IsLetterString(WithoutSign(s))) =>
    LET v == ShortlexRank(WithoutSign(s))
    IN  /\ v > I64Max => dec.ret = None
        /\ v = I64Max =>
             dec.ret = Some(IF s[1] = "n" THEN I64Min ELSE I64Max)

OverflowRejectedWitness ==
  /\ task = "decode" /\ pc = "parsed"
  /\ s # << >> /\ s[1] = "n"
  /\ IsLetterString(WithoutSign(s))
  /\ ShortlexRank(WithoutSign(s)) = I64Max + 1
  /\ dec.ret = None

\* C5: malformed labels.  column_from_name returns None for "", for "n", and
\* for every string that, once at most one leading 'n' is removed, has a
\* character outside 'A'..'Z'; so for "nnB", "AnZ" and "93".
MalformedRejected ==
  (task = "decode" /\ pc # "start") =>
    /\ (\/ WithoutSign(s) = << >>
        \/ \E i \in 1..Len(WithoutSign(s)) : WithoutSign(s)[i] \notin Letters)
         => dec.ret = None
    /\ s \in {<< >>, << "n" >>, << "n", "n", "B" >>, << "A", "n", "Z" >>,
              << "9", "3" >>, << "a" >>, << "z" >>}
         => dec.ret = None

MalformedRejectedWitness ==
  /\ task = "decode" /\ pc = "parsed"
  /\ s = << "n", "n", "B" >>
  /\ dec.ret = None

\* C6: sign symmetry.  For every n >= 0, column_name(-(n + 1)) is 'n'
\* followed by column_name(n).
SignSymmetry ==
  (task = "encode" /\ pc # "start" /\ n >= 0) =>
    column_name(-(n + 1)).label = << "n" >> \o enc.label

SignSymmetryWitness ==
  /\ task = "encode" /\ pc = "named"
  /\ n = I64Max
  /\ Len(enc.label) >= 2
  /\ column_name(I64Min).label = << "n" >> \o enc.label

\* C7: bijective base-26 enumeration.  For n >= 0, column_name(n) is the n-th
\* (0-based) letter string in length-then-alphabetical order, and
\* column_name(n + 1) is its successor; 25 is "Z", 26 "AA", 701 "ZZ",
\* 702 "AAA", -26 "nZ", -27 "nAA".
Enumeration ==
  (task = "encode" /\ pc # "start") =>
    /\ n >= 0 =>
         /\ IsLetterString(enc.label)
         /\ ShortlexRank(enc.label) = n
         /\ n < I64Max => column_name(n + 1).label = ShortlexSucc(enc.label)
    /\ n = 25 => enc.label = << "Z" >>
    /\ n = 26 => enc.label = << "A", "A" >>
    /\ n = 701 => enc.label = << "Z", "Z" >>
    /\ n = 702 => enc.label = << "A", "A", "A" >>
    /\ n = -26 => enc.label = << "n", "Z" >>
    /\ n = -27 => enc.label = << "n", "A", "A" >>

EnumerationWitness ==
  /\ task = "encode" /\ pc = "named"
  /\ n = 701
  /\ enc.label = << "Z", "Z" >>
  /\ column_name(n + 1).label = << "A", "A", "A" >>

\* C8: the formatter by list length.  "(none)" for no item, the item for one,
\* "A c B" for two, and for k >= 3 the first k-1 items each followed by ", ",
\* then c, a space and the last item.
JoinPolicy ==
  (task = "join" /\ pc = "done") =>
    LET k == Len(items)
    IN  /\ k = 0 => phrase = "(none)"
        /\ k = 1 => phrase = items[1]
        /\ k = 2 =>
             phrase = Flatten(<< items[1], " ", conjunction, " ", items[2] >>)
        /\ k >= 3 => phrase = Flatten(ExpectedPieces(conjunction, items))
        /\ (conjunction = "and" /\ items = << "x", "y" >>)
             => phrase = "x and y"
        /\ (conjunction = "and" /\ items = << "x", "y", "z" >>)
             => phrase = "x, y, and z"

JoinPolicyWitness ==
  /\ task = "join" /\ pc = "done"
  /\ conjunction = "and"
  /\ items = << "x", "y", "z" >>
  /\ phrase = "x, y, and z"

\* C9: label shape.  column_name(n) is never empty; for n >= 0 it has only
\* the characters 'A'..'Z'; for n < 0 it is one 'n' followed by one or more
\* characters 'A'..'Z'.
LabelShape ==
  Encoded =>
    /\ Len(enc.label) > 0
    /\ EncArg >= 0 => \A i \in 1..Len(enc.label) : enc.label[i] \in Letters
    /\ EncArg < 0 =>
         /\ enc.label[1] = "n"
         /\ Len(enc.label) >= 2
         /\ \A i \in 2..Len(enc.label) : enc.label[i] \in Letters

LabelShapeWitness ==
  /\ task = "encode" /\ pc = "named"
  /\ n = I64Min
  /\ Len(enc.label) >= 3
  /\ enc.label[1] = "n"
  /\ enc.label[Len(enc.label)] \in Letters

\* C10: decoder arithmetic.  The accumulator starts as the first letter's
\* digit, becomes (acc + 1) * 26 + digit with each further letter, and is in
\* 0..i64::MAX whenever the loop goes on; -acc - 1 does not overflow, and a
\* negative label returns exactly -acc - 1.
DecoderInRange ==
  Decoded =>
    LET r == WithoutSign(DecArg)
        a == dec.accs
    IN  /\ \A i \in 1..Len(a) : a[i] \in 0..I64Max
        /\ Len(a) <= Len(r)
        /\ Len(a) >= 1 => a[1] = LetterIndex(r[1])
        /\ \A i \in 2..Len(a) : a[i] = (a[i - 1] + 1) * 26 + LetterIndex(r[i])
        /\ dec.raw \subseteq I64
        /\ dec.ret.some =>
             /\ Len(a) = Len(r)
             /\ dec.ret.val =
                  IF DecArg[1] = "n" THEN -a[Len(a)] - 1 ELSE a[Len(a)]

DecoderInRangeWitness ==
  /\ task = "decode" /\ pc = "parsed"
  /\ s[1] = "n"
  /\ Len(dec.accs) >= 3
  /\ dec.accs[Len(dec.accs)] = I64Max
  /\ -I64Max \in dec.raw
  /\ dec.ret = Some(I64Min)

====
